---- MODULE Spec2Model ----
(***************************************************************************)
(* descript-redis-cache: the get/set engine of the Redis cache adapter.    *)
(*                                                                         *)
(* Two variants of the engine live in the repository:                      *)
(*   "ts"  src/index.ts  class Cache (verbatim payload, reader/writer)     *)
(*   "js"  src/index.js  class DescriptRedisCache (HTTP narrowing)         *)
(* The model runs either one; `variant` is fixed by Init.                  *)
(*                                                                         *)
(* A call of get or set is one entry of `calls`.  The synchronous part of  *)
(* a call (the Promise executor) is one action; the timer callback, the    *)
(* store's read callback and the store's write callback are one action     *)
(* each, and they interleave freely between calls, as on the event loop.   *)
(***************************************************************************)
EXTENDS Integers, Sequences, FiniteSets, TLC

VARIABLES
    variant,    \* "ts" (src/index.ts) or "js" (src/index.js)
    logger,     \* the injected logger: "absent", "present" or "throws"
    options,    \* this.#options / this._options
    env,        \* what the caller and the store's other clients do in this run
    calls,      \* the get/set calls made so far, in call order
    store,      \* the Redis keyspace: storage key -> payload written by set
    initialized \* the event the constructor of the last instance logged

vars == <<variant, logger, options, env, calls, store, initialized>>

(***************************************************************************)
(* Bounds of the model.                                                    *)
(***************************************************************************)
MaxCalls == 2       \* calls per run of Spec
FairCalls == 1      \* calls per run of FairSpec
TTLCalls == 1       \* calls per run of SpecTTL
KeyCalls == 2       \* calls per run of SpecKeys
StoreCalls == 2     \* calls per run of SpecStore
LoggerCalls == 1    \* calls per run of SpecLogger
TopologyCalls == 1  \* calls per run of SpecTopology

(***************************************************************************)
(* JavaScript values, as far as JSON.stringify / JSON.parse tell them      *)
(* apart.  An object is the sequence of its own properties <<name, value>> *)
(* in insertion order.  Cyclic, as a property value, is a reference back   *)
(* to the object that holds it (value.result === value).                   *)
(***************************************************************************)
Undefined == [t |-> "undefined"]
Null == [t |-> "null"]
Func == [t |-> "function"]
Cyclic == [t |-> "cyclic"]
Num(n) == [t |-> "number", n |-> n]
Str(s) == [t |-> "string", s |-> s]
Obj(props) == [t |-> "object", o |-> props]

\* A string holding (possibly malformed) JSON text: a sequence of tokens.
Text(toks) == [t |-> "text", toks |-> toks]

\* What the store hands to a read callback when the key holds nothing.
Nil == [t |-> "nil"]

\* An event field, or a call input, that is not there.
Omitted == [t |-> "omitted"]

(***************************************************************************)
(* JSON.stringify: JSON text, or undefined (a top-level undefined or       *)
(* function yields no text and does not throw), or a thrown TypeError (a   *)
(* circular structure).  Properties whose value is undefined or a function *)
(* are left out of an object's text.                                       *)
(***************************************************************************)
StringifyThrow == [k |-> "throw", toks |-> <<>>]
StringifyUndefined == [k |-> "undefined", toks |-> <<>>]
StringifyText(toks) == [k |-> "text", toks |-> toks]

RECURSIVE JSONstringifyValue(_)
RECURSIVE JSONstringifyProps(_, _, _, _)

JSONstringifyValue(v) ==
    CASE v.t = "null" -> StringifyText(<<"null">>)
      [] v.t = "number" -> StringifyText(<<ToString(v.n)>>)
      [] v.t = "string" -> StringifyText(<<"\"", v.s, "\"">>)
      [] v.t = "object" -> JSONstringifyProps(v.o, 1, <<"{">>, TRUE)
      [] v.t = "cyclic" -> StringifyThrow
      [] OTHER -> StringifyUndefined

JSONstringifyProps(props, i, acc, first) ==
    IF i > Len(props)
    THEN StringifyText(acc \o <<"}">>)
    ELSE LET s == JSONstringifyValue(props[i][2]) IN
         CASE s.k = "throw" -> StringifyThrow
           [] s.k = "undefined" -> JSONstringifyProps(props, i + 1, acc, first)
           [] OTHER ->
                JSONstringifyProps(props, i + 1,
                    acc \o (IF first THEN <<>> ELSE <<",">>)
                        \o <<"\"", props[i][1], "\"", ":">> \o s.toks,
                    FALSE)

\* JSON.stringify(v) as the engine sees it: [k, json], json the JS value
\* assigned to `json` (a text, or undefined) when nothing is thrown.
JSONstringify(v) ==
    LET s == JSONstringifyValue(v) IN
    CASE s.k = "throw" -> [k |-> "throw", json |-> Undefined]
      [] s.k = "undefined" -> [k |-> "ok", json |-> Undefined]
      [] OTHER -> [k |-> "ok", json |-> Text(s.toks)]

(***************************************************************************)
(* JSON.parse: a recursive-descent reading of the token sequence; it       *)
(* accepts exactly one value followed by nothing, and throws otherwise.    *)
(***************************************************************************)
JsonNumbers == {200, 404}

ParseFail == [ok |-> FALSE, v |-> Undefined, next |-> 0]
ParseOk(v, next) == [ok |-> TRUE, v |-> v, next |-> next]

IsNumberToken(tk) == \E n \in JsonNumbers : ToString(n) = tk
NumberOfToken(tk) == CHOOSE n \in JsonNumbers : ToString(n) = tk

RECURSIVE JSONparseValue(_, _)
RECURSIVE JSONparseMembers(_, _, _)

JSONparseValue(toks, i) ==
    IF i > Len(toks)
    THEN ParseFail
    ELSE LET tk == toks[i] IN
         CASE tk = "null" -> ParseOk(Null, i + 1)
           [] tk = "\"" ->
                IF i + 2 <= Len(toks) /\ toks[i + 2] = "\""
                THEN ParseOk(Str(toks[i + 1]), i + 3)
                ELSE ParseFail
           [] tk = "{" ->
                IF i + 1 <= Len(toks) /\ toks[i + 1] = "}"
                THEN ParseOk(Obj(<<>>), i + 2)
                ELSE JSONparseMembers(toks, i + 1, <<>>)
           [] IsNumberToken(tk) -> ParseOk(Num(NumberOfToken(tk)), i + 1)
           [] OTHER -> ParseFail

JSONparseMembers(toks, i, acc) ==
    IF i + 3 <= Len(toks) /\ toks[i] = "\"" /\ toks[i + 2] = "\"" /\ toks[i + 3] = ":"
    THEN LET r == JSONparseValue(toks, i + 4)
             props == Append(acc, <<toks[i + 1], r.v>>)
         IN  CASE ~r.ok -> ParseFail
               [] r.ok /\ r.next <= Len(toks) /\ toks[r.next] = "," ->
                    JSONparseMembers(toks, r.next + 1, props)
               [] r.ok /\ r.next <= Len(toks) /\ toks[r.next] = "}" ->
                    ParseOk(Obj(props), r.next + 1)
               [] OTHER -> ParseFail
    ELSE ParseFail

\* JSON.parse(data): [ok, v]; ~ok is the thrown SyntaxError.
JSONparse(data) ==
    LET r == JSONparseValue(data.toks, 1) IN
    IF r.ok /\ r.next = Len(data.toks) + 1
    THEN [ok |-> TRUE, v |-> r.v]
    ELSE [ok |-> FALSE, v |-> Undefined]

(***************************************************************************)
(* Property read value.<name>.  Reading a property of null or undefined    *)
(* throws a TypeError; a primitive or a function has none of the three     *)
(* properties the js variant reads.                                        *)
(***************************************************************************)
PropertyReadThrows(v) == v.t \in {"null", "undefined"}

GetProp(v, name) ==
    IF v.t # "object"
    THEN Undefined
    ELSE LET at == {j \in 1..Len(v.o) : v.o[j][1] = name} IN
         IF at = {} THEN Undefined
         ELSE v.o[CHOOSE j \in at : \A h \in at : h <= j][2]

safeSerializableValueWithoutResult(value) ==
    Obj(<< <<"status_code", GetProp(value, "status_code")>>,
           <<"headers", GetProp(value, "headers")>> >>)

\* js: the object literal { status_code, headers, result } built from value.
safeSerializableValue(value) ==
    Obj(<< <<"status_code", GetProp(value, "status_code")>>,
           <<"headers", GetProp(value, "headers")>>,
           <<"result", GetProp(value, "result")>> >>)

(***************************************************************************)
(* Key normalizer: sha512 of the template string `g${generation}:${key}`.  *)
(* Strings are sequences of characters; the digest is taken as             *)
(* collision-free and is represented by the string it was computed from.   *)
(***************************************************************************)
DigitChar(d) == <<"0", "1", "2", "3", "4", "5", "6", "7", "8", "9">>[d + 1]

DecimalLastDigit(n) == <<DigitChar(n % 10)>>

RECURSIVE Decimal(_)
Decimal(n) ==
    IF n < 0 THEN <<"-">> \o Decimal(0 - n)
    ELSE IF n < 10 THEN <<DigitChar(n)>>
    ELSE Decimal(n \div 10) \o <<DigitChar(n % 10)>>

KeyStringUnseparated(generation, key) == <<"g">> \o Decimal(generation) \o key

KeyString(generation, key) == <<"g">> \o Decimal(generation) \o <<":">> \o key

sha512(value) == [sha512 |-> value]

normalizeKeyAnyGeneration(key) == sha512(KeyString(1, key))

normalizeKey(key) == sha512(KeyString(options.generation, key))

(***************************************************************************)
(* Options defaults and the store handles.                                 *)
(***************************************************************************)
DefaultKeyTTL == 86400
DefaultGeneration == 1
DefaultReadTimeout == 100

DefaultOptions ==
    [defaultKeyTTL |-> DefaultKeyTTL,
     generation |-> DefaultGeneration,
     readTimeout |-> DefaultReadTimeout,
     cluster |-> FALSE,
     useReaderAndWriterWithSentinel |-> FALSE]

\* ts: #reader and #writer are two clients only in sentinel split mode;
\* js: the one _client serves both.
SplitMode ==
    variant = "ts" /\ ~options.cluster /\ options.useReaderAndWriterWithSentinel

reader == IF SplitMode THEN "reader" ELSE "client"

writerIsReader == reader

writer == IF SplitMode THEN "writer" ELSE "client"

(***************************************************************************)
(* Lifecycle event type tags.                                              *)
(***************************************************************************)
EVENT ==
    [REDIS_CACHE_INITIALIZED |-> "REDIS_CACHE_INITIALIZED",
     REDIS_CACHE_JSON_PARSING_FAILED |-> "REDIS_CACHE_JSON_PARSING_FAILED",
     REDIS_CACHE_JSON_STRINGIFY_FAILED |-> "REDIS_CACHE_JSON_STRINGIFY_FAILED",
     REDIS_CACHE_READ_DONE |-> "REDIS_CACHE_READ_DONE",
     REDIS_CACHE_READ_ERROR |-> "REDIS_CACHE_READ_ERROR",
     REDIS_CACHE_READ_KEY_NOT_FOUND |-> "REDIS_CACHE_READ_KEY_NOT_FOUND",
     REDIS_CACHE_READ_START |-> "REDIS_CACHE_READ_START",
     REDIS_CACHE_READ_TIMEOUT |-> "REDIS_CACHE_READ_TIMEOUT",
     REDIS_CACHE_WRITE_DONE |-> "REDIS_CACHE_WRITE_DONE",
     REDIS_CACHE_WRITE_ERROR |-> "REDIS_CACHE_WRITE_ERROR",
     REDIS_CACHE_WRITE_FAILED |-> "REDIS_CACHE_WRITE_FAILED",
     REDIS_CACHE_WRITE_START |->
        IF variant = "js" THEN "REDIS_CACHE_READ_START"
                          ELSE "REDIS_CACHE_WRITE_START"]

(***************************************************************************)
(* Errors a promise is rejected with.                                      *)
(***************************************************************************)
deError(id) == [t |-> "deError", id |-> id]
TypeError == [t |-> "TypeError"]
LoggerError == [t |-> "LoggerError"]

\* What a store callback gets as its `error` argument.
StoreError == [t |-> "Error"]

(***************************************************************************)
(* One call of get or set.                                                 *)
(***************************************************************************)
NewCall(op, key, value, maxage) ==
    [this |-> options,          \* the options of the instance the call is made on
     op |-> op,                 \* "get" or "set"
     key |-> key,               \* the logical key
     value |-> value,           \* set: the value argument
     maxage |-> maxage,         \* set: the maxage argument, or Omitted
     promise |-> "pending",     \* "pending", "resolved", "rejected"; "none": nothing returned
     result |-> Undefined,      \* what the promise resolved or was rejected with
     resolveCalls |-> 0,        \* calls of resolve
     rejectCalls |-> 0,         \* calls of reject
     isTimeout |-> FALSE,       \* get: the isTimeout flag
     timer |-> "none",          \* get: "none", "armed", "fired", "cleared"
     request |-> "none",        \* the store command: "none", "inflight", "answered"
     response |-> Omitted,      \* what the store callback was called with
     events |-> <<>>,           \* events handed to #log, in order
     storeCalls |-> <<>>]       \* commands issued to the store, in order

\* new Promise: the first resolve or reject decides, later ones are ignored.
Resolve(c, v) ==
    [c EXCEPT !.resolveCalls = @ + 1,
              !.promise = IF @ = "pending" THEN "resolved" ELSE @,
              !.result = IF c.promise = "pending" THEN v ELSE @]

Reject(c, e) ==
    [c EXCEPT !.rejectCalls = @ + 1,
              !.promise = IF @ = "pending" THEN "rejected" ELSE @,
              !.result = IF c.promise = "pending" THEN e ELSE @]

\* #log / _log: the event goes to the logger when there is one.
Log(c, type, data) ==
    [c EXCEPT !.events =
        Append(@, [type |-> type, data |-> data, delivered |-> logger # "absent"])]

\* Whether logger.log throws on a call: only a failing logger may.
LogThrowChoices == IF logger = "throws" THEN {FALSE, TRUE} ELSE {FALSE}

\* One store callback outcome: log the event, then settle, unless the
\* logger threw, which leaves the callback before resolve/reject.
Finish(c, out, thrown) ==
    LET logged == Log(c, out.type, out.data) IN
    CASE thrown -> logged
      [] ~thrown /\ out.settle = "resolve" -> Resolve(logged, out.result)
      [] OTHER -> Reject(logged, out.result)

(***************************************************************************)
(* JavaScript truthiness of what `if (error)`, `!data`, `!done` test.      *)
(***************************************************************************)
IsFalsy(x) ==
    \/ x.t \in {"nil", "undefined", "null"}
    \/ x.t = "text" /\ x.toks = <<>>
    \/ x.t = "string" /\ x.s = ""
    \/ x.t = "number" /\ x.n = 0

(***************************************************************************)
(* get: the branches of the store's read callback once it is not late.     *)
(***************************************************************************)
ReadErrorOutcome ==
    [type |-> EVENT.REDIS_CACHE_READ_ERROR, data |-> Omitted,
     settle |-> "reject", result |-> deError(EVENT.REDIS_CACHE_READ_ERROR)]

KeyNotFoundOutcome ==
    [type |-> EVENT.REDIS_CACHE_READ_KEY_NOT_FOUND, data |-> Omitted,
     settle |-> "reject", result |-> deError(EVENT.REDIS_CACHE_READ_KEY_NOT_FOUND)]

ParsingFailedOutcome(data) ==
    [type |-> EVENT.REDIS_CACHE_JSON_PARSING_FAILED, data |-> data,
     settle |-> "reject", result |-> deError(EVENT.REDIS_CACHE_JSON_PARSING_FAILED)]

\* READ_DONE is logged with the raw data, the promise resolves with parsedValue.
ReadDoneOutcome(data, parsedValue) ==
    [type |-> EVENT.REDIS_CACHE_READ_DONE, data |-> data,
     settle |-> "resolve", result |-> parsedValue]

\* Mutant: a miss resolves with undefined instead of rejecting.
ReadOutcomeMissResolves(error, data) ==
    IF ~IsFalsy(error) THEN ReadErrorOutcome
    ELSE IF IsFalsy(data) THEN ReadDoneOutcome(data, Undefined)
    ELSE IF ~JSONparse(data).ok THEN ParsingFailedOutcome(data)
    ELSE ReadDoneOutcome(data, JSONparse(data).v)

\* Mutant: the data is looked at before the error.
ReadOutcomeDataFirst(error, data) ==
    IF ~IsFalsy(data)
    THEN IF ~JSONparse(data).ok THEN ParsingFailedOutcome(data)
         ELSE ReadDoneOutcome(data, JSONparse(data).v)
    ELSE IF ~IsFalsy(error) THEN ReadErrorOutcome
    ELSE KeyNotFoundOutcome

\* Mutant: the promise resolves with the raw payload.
ReadOutcomeRaw(error, data) ==
    IF ~IsFalsy(error) THEN ReadErrorOutcome
    ELSE IF IsFalsy(data) THEN KeyNotFoundOutcome
    ELSE IF ~JSONparse(data).ok THEN ParsingFailedOutcome(data)
    ELSE ReadDoneOutcome(data, data)

ReadOutcome(error, data) ==
    IF ~IsFalsy(error) THEN ReadErrorOutcome
    ELSE IF IsFalsy(data) THEN KeyNotFoundOutcome
    ELSE IF ~JSONparse(data).ok THEN ParsingFailedOutcome(data)
    ELSE ReadDoneOutcome(data, JSONparse(data).v)

\* The timer callback's outcome.
TimeoutOutcome ==
    [type |-> EVENT.REDIS_CACHE_READ_TIMEOUT, data |-> Omitted,
     settle |-> "reject", result |-> deError(EVENT.REDIS_CACHE_READ_TIMEOUT)]

\* Mutant: the read callback does not look at the flag.
ResponseNeverLate(c) == FALSE

\* `if (isTimeout) return;` at the top of the read callback.
ResponseIsLate(c) == c.isTimeout

\* Mutant: the timer is left armed.
clearTimeoutForgotten(timer) == timer

\* clearTimeout(timer)
clearTimeout(timer) == IF timer = "armed" THEN "cleared" ELSE timer

\* Mutant: the timer callback sets the flag and logs, and does not reject.
OnTimeoutWithoutReject(c, thrown) ==
    Log([c EXCEPT !.isTimeout = TRUE, !.timer = "fired"],
        TimeoutOutcome.type, TimeoutOutcome.data)

\* The timer callback.
OnTimeout(c, thrown) ==
    Finish([c EXCEPT !.isTimeout = TRUE, !.timer = "fired"], TimeoutOutcome, thrown)

OnReadResponseRetries(c, error, data, thrown) ==
    LET answered == [c EXCEPT !.request = "answered",
                              !.response = [error |-> error, data |-> data,
                                            late |-> c.isTimeout]]
        settled == IF ResponseIsLate(c)
                   THEN answered
                   ELSE Finish([answered EXCEPT !.timer = clearTimeout(@)],
                               ReadOutcome(error, data), thrown)
    IN  IF IsFalsy(error)
        THEN settled
        ELSE [settled EXCEPT !.storeCalls = Append(@, @[1])]

OnReadResponseClearsOnSuccess(c, error, data, thrown) ==
    LET answered == [c EXCEPT !.request = "answered",
                              !.response = [error |-> error, data |-> data,
                                            late |-> c.isTimeout]]
        out == ReadOutcome(error, data)
    IN  IF ResponseIsLate(c)
        THEN answered
        ELSE Finish([answered EXCEPT !.timer = IF out.settle = "resolve"
                                               THEN clearTimeout(@) ELSE @],
                    out, thrown)

\* The read callback (error, data) => { ... }.
OnReadResponse(c, error, data, thrown) ==
    LET answered == [c EXCEPT !.request = "answered",
                              !.response = [error |-> error, data |-> data,
                                            late |-> c.isTimeout]]
    IN  IF ResponseIsLate(c)
        THEN answered
        ELSE Finish([answered EXCEPT !.timer = clearTimeout(@)],
                    ReadOutcome(error, data), thrown)

GetExecutorWithoutStart(key, thrown) ==
    [NewCall("get", key, Omitted, Omitted) EXCEPT
        !.timer = "armed",
        !.request = "inflight",
        !.storeCalls = Append(@, [handle |-> reader, cmd |-> "get",
                                  key |-> normalizeKey(key),
                                  payload |-> Omitted, ex |-> Omitted])]

\* The executor of get's promise: READ_START, arm the timer, issue the read.
GetExecutor(key, thrown) ==
    LET started == Log(NewCall("get", key, Omitted, Omitted),
                       EVENT.REDIS_CACHE_READ_START, Omitted)
    IN  IF thrown
        THEN Reject(started, LoggerError)
        ELSE [started EXCEPT
                !.timer = "armed",
                !.request = "inflight",
                !.storeCalls = Append(@, [handle |-> reader, cmd |-> "get",
                                          key |-> normalizeKey(key),
                                          payload |-> Omitted, ex |-> Omitted])]

(***************************************************************************)
(* set: the value that is encoded, the synchronous part, and the branches  *)
(* of the store's write callback.                                          *)
(***************************************************************************)
\* ts encodes the value itself, js the narrowed object.
EncodedValueVerbatim(value) == value

EncodedValue(value) ==
    IF variant = "js" THEN safeSerializableValue(value) ELSE value

\* js reads value.status_code before the try block.
ProjectionThrows(value) == variant = "js" /\ PropertyReadThrows(value)

EffectiveMaxageDefaultOnly(maxage) == options.defaultKeyTTL

\* The default parameter: maxage = defaultKeyTTL when the argument is undefined.
EffectiveMaxage(maxage) ==
    IF maxage.t \in {"omitted", "undefined"} THEN options.defaultKeyTTL ELSE maxage.n

\* set with typeof value === 'undefined': ts returns Promise.resolve(),
\* js returns nothing.
SetAbsent(key, value, maxage) ==
    IF variant = "ts"
    THEN Resolve(NewCall("set", key, value, maxage), Undefined)
    ELSE [NewCall("set", key, value, maxage) EXCEPT !.promise = "none"]

StringifyFailedOutcome(value) ==
    [type |-> EVENT.REDIS_CACHE_JSON_STRINGIFY_FAILED, data |-> value,
     settle |-> "reject", result |-> deError(EVENT.REDIS_CACHE_JSON_STRINGIFY_FAILED)]

SetExecutorWithTimer(key, value, maxage, thrownStart, thrownFail) ==
    LET started == Log(NewCall("set", key, value, maxage),
                       EVENT.REDIS_CACHE_WRITE_START, Omitted)
        encoded == JSONstringify(EncodedValue(value))
    IN  CASE thrownStart -> Reject(started, LoggerError)
          [] ~thrownStart /\ ProjectionThrows(value) -> Reject(started, TypeError)
          [] ~thrownStart /\ ~ProjectionThrows(value) /\ encoded.k = "throw" ->
                LET failed == Finish(started, StringifyFailedOutcome(value), thrownFail)
                IN  IF thrownFail THEN Reject(failed, LoggerError) ELSE failed
          [] OTHER ->
                [started EXCEPT
                    !.timer = "armed",
                    !.request = "inflight",
                    !.storeCalls = Append(@, [handle |-> writer, cmd |-> "set",
                                              key |-> normalizeKey(key),
                                              payload |-> encoded.json,
                                              ex |-> EffectiveMaxage(maxage)])]

\* The executor of set's promise.
SetExecutor(key, value, maxage, thrownStart, thrownFail) ==
    LET started == Log(NewCall("set", key, value, maxage),
                       EVENT.REDIS_CACHE_WRITE_START, Omitted)
        encoded == JSONstringify(EncodedValue(value))
    IN  CASE thrownStart -> Reject(started, LoggerError)
          [] ~thrownStart /\ ProjectionThrows(value) -> Reject(started, TypeError)
          [] ~thrownStart /\ ~ProjectionThrows(value) /\ encoded.k = "throw" ->
                LET failed == Finish(started, StringifyFailedOutcome(value), thrownFail)
                IN  IF thrownFail THEN Reject(failed, LoggerError) ELSE failed
          [] OTHER ->
                [started EXCEPT
                    !.request = "inflight",
                    !.storeCalls = Append(@, [handle |-> writer, cmd |-> "set",
                                              key |-> normalizeKey(key),
                                              payload |-> encoded.json,
                                              ex |-> EffectiveMaxage(maxage)])]

WriteOutcome(error, done, json) ==
    IF ~IsFalsy(error)
    THEN [type |-> EVENT.REDIS_CACHE_WRITE_ERROR, data |-> Omitted,
          settle |-> "reject", result |-> deError(EVENT.REDIS_CACHE_WRITE_ERROR)]
    ELSE IF IsFalsy(done)
    THEN [type |-> EVENT.REDIS_CACHE_WRITE_FAILED, data |-> Omitted,
          settle |-> "reject", result |-> deError(EVENT.REDIS_CACHE_WRITE_FAILED)]
    ELSE [type |-> EVENT.REDIS_CACHE_WRITE_DONE, data |-> json,
          settle |-> "resolve", result |-> Undefined]

\* The write callback (error, done) => { ... }.
OnWriteResponse(c, error, done, thrown) ==
    Finish([c EXCEPT !.request = "answered",
                     !.response = [error |-> error, data |-> done, late |-> FALSE]],
           WriteOutcome(error, done, c.storeCalls[Len(c.storeCalls)].payload),
           thrown)

(***************************************************************************)
(* What the caller passes and what the store answers.                      *)
(***************************************************************************)
Keys == {<<"k">>, <<"2", "k">>}

HttpValue ==
    Obj(<< <<"status_code", Num(200)>>,
           <<"headers", Obj(<<>>)>>,
           <<"result", Str("body")>>,
           <<"extraneousField", Str("x")>> >>)

\* value.result === value
CircularValue == Obj(<< <<"result", Cyclic>> >>)

SetValues ==
    {Undefined, Null, Str("somevalue"), HttpValue, Func, CircularValue}

MaxAges == {Omitted, Num(60)}

StoreErrors == {Nil, StoreError}

ReadData ==
    {Nil,
     Text(<<>>),
     Text(<<"{">>),
     Text(<<"null">>),
     Text(<<"\"", "somevalue", "\"">>),
     Text(<<"{", "\"", "status_code", "\"", ":", "200", "}">>)}

WriteAcks == {Nil, Str("OK")}

\* The options object given to the constructor; Omitted: property not given.
\* redis / redisOptions is the connection descriptor.
\* cluster: ts, redis has startupNodes; js, useCluster.
GivenOptions(defaultKeyTTL, generation) ==
    [defaultKeyTTL |-> defaultKeyTTL, generation |-> generation,
     cluster |-> FALSE, useReaderAndWriterWithSentinel |-> FALSE,
     redis |-> "redis://:password@host"]

NoOptions == GivenOptions(Omitted, Omitted)

GivenTopology(cluster, sentinel) ==
    [NoOptions EXCEPT !.cluster = cluster,
                      !.useReaderAndWriterWithSentinel = sentinel]

GivenRedis(redis) == [NoOptions EXCEPT !.redis = redis]

(***************************************************************************)
(* The constructor: defaults overlaid with the given options, and the      *)
(* INITIALIZED event.                                                      *)
(***************************************************************************)
MergeOptions(given) ==
    [defaultKeyTTL |-> IF given.defaultKeyTTL.t = "omitted"
                       THEN DefaultOptions.defaultKeyTTL
                       ELSE given.defaultKeyTTL.n,
     generation |-> IF given.generation.t = "omitted"
                    THEN DefaultOptions.generation
                    ELSE given.generation.n,
     readTimeout |-> DefaultOptions.readTimeout,
     cluster |-> given.cluster,
     useReaderAndWriterWithSentinel |-> given.useReaderAndWriterWithSentinel,
     redis |-> given.redis]

\* ts logs { ...this.#options }; js deletes redisOptions from the copy first.
OptionsToLog(o) ==
    IF variant = "js" THEN [f \in (DOMAIN o) \ {"redis"} |-> o[f]] ELSE o

InitializedEvent(o) ==
    [type |-> EVENT.REDIS_CACHE_INITIALIZED, options |-> OptionsToLog(o),
     delivered |-> logger # "absent"]

(***************************************************************************)
(* The store.  A SET that Redis acknowledges replaces the entry of its     *)
(* key; the client sends an undefined argument as the empty string.  A GET *)
(* returns the entry, or nil when there is none.                           *)
(***************************************************************************)
StoreApplied(error, done) == IsFalsy(error) /\ ~IsFalsy(done)

SentPayload(json) == IF json.t = "undefined" THEN Text(<<>>) ELSE json

StoreWrite(st, command) ==
    [k \in (DOMAIN st) \cup {command.key} |->
        IF k = command.key THEN SentPayload(command.payload) ELSE st[k]]

StoreRead(st, key) == IF key \in DOMAIN st THEN st[key] ELSE Nil

\* What the read of get call i may be answered with: anything when other
\* clients write to the same keyspace, the entry of its key otherwise.
ReadAnswers(i) ==
    IF i \notin DOMAIN calls \/ calls[i].op # "get" \/ calls[i].storeCalls = <<>>
    THEN {}
    ELSE IF env.foreign THEN ReadData
    ELSE {StoreRead(store, calls[i].storeCalls[1].key)}

(***************************************************************************)
(* Actions.                                                                *)
(***************************************************************************)
\* new Cache(options, logger): the caller goes on with the new instance,
\* unless the logger threw on the INITIALIZED event.
Construct(given) ==
    /\ initialized' = InitializedEvent(MergeOptions(given))
    /\ \E thrown \in LogThrowChoices :
            options' = IF thrown THEN options ELSE MergeOptions(given)
    /\ UNCHANGED <<variant, logger, env, calls, store>>

\* cache.get({ key })
Get(key) ==
    /\ Len(calls) < env.maxCalls
    /\ \E thrown \in LogThrowChoices :
            calls' = Append(calls, GetExecutor(key, thrown))
    /\ UNCHANGED <<variant, logger, options, env, store, initialized>>

TimeoutSharedFlag(i) ==
    /\ i \in DOMAIN calls
    /\ calls[i].timer = "armed"
    /\ \E thrown \in LogThrowChoices :
            calls' = [k \in DOMAIN calls |->
                        IF k = i THEN OnTimeout(calls[k], thrown)
                        ELSE [calls[k] EXCEPT !.isTimeout = TRUE]]
    /\ UNCHANGED <<variant, logger, options, env, store, initialized>>

\* The setTimeout callback of get call i runs.
Timeout(i) ==
    /\ i \in DOMAIN calls
    /\ calls[i].timer = "armed"
    /\ \E thrown \in LogThrowChoices :
            calls' = [calls EXCEPT ![i] = OnTimeout(@, thrown)]
    /\ UNCHANGED <<variant, logger, options, env, store, initialized>>

\* The store calls back the read of get call i.
ReadResponse(i, error, data) ==
    /\ i \in DOMAIN calls
    /\ calls[i].op = "get"
    /\ calls[i].request = "inflight"
    /\ \E thrown \in LogThrowChoices :
            calls' = [calls EXCEPT ![i] = OnReadResponse(@, error, data, thrown)]
    /\ UNCHANGED <<variant, logger, options, env, store, initialized>>

\* cache.set({ key, value, maxage })
Set(key, value, maxage) ==
    /\ Len(calls) < env.maxCalls
    /\ IF value.t = "undefined"
       THEN calls' = Append(calls, SetAbsent(key, value, maxage))
       ELSE \E thrownStart \in LogThrowChoices, thrownFail \in LogThrowChoices :
                calls' = Append(calls,
                    SetExecutor(key, value, maxage, thrownStart, thrownFail))
    /\ UNCHANGED <<variant, logger, options, env, store, initialized>>

\* The store calls back the write of set call i.
WriteResponse(i, error, done) ==
    /\ i \in DOMAIN calls
    /\ calls[i].op = "set"
    /\ calls[i].request = "inflight"
    /\ \E thrown \in LogThrowChoices :
            calls' = [calls EXCEPT ![i] = OnWriteResponse(@, error, done, thrown)]
    /\ store' = IF StoreApplied(error, done)
                THEN StoreWrite(store, calls[i].storeCalls[1])
                ELSE store
    /\ UNCHANGED <<variant, logger, options, env, initialized>>

Next ==
    \/ \E given \in env.instances : Construct(given)
    \/ \E key \in env.keys : Get(key)
    \/ \E i \in 1..env.maxCalls : Timeout(i)
    \/ \E i \in 1..env.maxCalls, error \in StoreErrors :
            \E data \in ReadAnswers(i) : ReadResponse(i, error, data)
    \/ \E key \in env.keys, value \in env.values, maxage \in env.maxages :
            Set(key, value, maxage)
    \/ \E i \in 1..env.maxCalls, error \in StoreErrors, done \in WriteAcks :
            WriteResponse(i, error, done)

(***************************************************************************)
(* Specifications.  Spec: either variant, a logger that does not fail, the *)
(* default options, MaxCalls calls on one key.  FairSpec: the same engine  *)
(* with the event loop's guarantee that an armed timer that is not cleared *)
(* fires.                                                                  *)
(***************************************************************************)
\* The state after the first instance is constructed, in the environment e:
\* e.maxCalls calls are made, with keys, values and maxages from e.keys,
\* e.values, e.maxages, on instances constructed with options from
\* e.instances; e.foreign: other clients write to the keyspace too.
InitEnv(loggers, e) ==
    /\ variant \in {"ts", "js"}
    /\ logger \in loggers
    /\ env = e
    /\ \E given \in e.instances :
            /\ options = MergeOptions(given)
            /\ initialized = InitializedEvent(MergeOptions(given))
    /\ calls = <<>>
    /\ store = <<>>

InitWith(loggers, maxCalls, keys, maxages) ==
    InitEnv(loggers, [maxCalls |-> maxCalls, keys |-> keys, maxages |-> maxages,
                      values |-> SetValues, instances |-> {NoOptions},
                      foreign |-> TRUE])

Init == InitWith({"present"}, MaxCalls, {<<"k">>}, MaxAges)

Spec == Init /\ [][Next]_vars

InitFair == InitWith({"present"}, FairCalls, {<<"k">>}, MaxAges)

TimerFairness == \A i \in 1..FairCalls : WF_vars(Timeout(i))

FairSpec == InitFair /\ [][Next]_vars /\ TimerFairness

\* SpecTTL: instances with and without a configured defaultKeyTTL, set with
\* maxage left out, passed as undefined and passed as a number.
TTLInstances == {NoOptions, GivenOptions(Num(3600), Omitted)}

InitTTL ==
    InitEnv({"present"},
            [maxCalls |-> TTLCalls, keys |-> {<<"k">>},
             maxages |-> MaxAges \cup {Undefined}, values |-> SetValues,
             instances |-> TTLInstances, foreign |-> TRUE])

SpecTTL == InitTTL /\ [][Next]_vars

\* SpecKeys: instances of generation 1 and 12 on one keyspace that nobody
\* else writes to, two logical keys.
KeyInstances == {NoOptions, GivenOptions(Omitted, Num(12))}

InitKeys ==
    InitEnv({"present"},
            [maxCalls |-> KeyCalls, keys |-> Keys,
             maxages |-> {Omitted}, values |-> {HttpValue},
             instances |-> KeyInstances, foreign |-> FALSE])

SpecKeys == InitKeys /\ [][Next]_vars

\* SpecStore: one instance and one key on a keyspace that nobody else
\* writes to, so that a get reads what the sets before it wrote.
InitStore ==
    InitEnv({"present"},
            [maxCalls |-> StoreCalls, keys |-> {<<"k">>},
             maxages |-> {Omitted}, values |-> SetValues,
             instances |-> {NoOptions}, foreign |-> FALSE])

SpecStore == InitStore /\ [][Next]_vars

\* SpecLogger: Spec's environment with a logger whose log may throw on any
\* event.
InitLogger ==
    InitEnv({"throws"},
            [maxCalls |-> LoggerCalls, keys |-> {<<"k">>},
             maxages |-> MaxAges, values |-> SetValues,
             instances |-> {NoOptions}, foreign |-> TRUE])

SpecLogger == InitLogger /\ [][Next]_vars

\* SpecTopology: single node, cluster, sentinel with split reader and
\* writer, and a second connection descriptor.
TopologyInstances ==
    {NoOptions, GivenTopology(TRUE, FALSE), GivenTopology(FALSE, TRUE),
     GivenTopology(TRUE, TRUE), GivenRedis("redis://:secret@replica")}

InitTopology ==
    InitEnv({"present"},
            [maxCalls |-> TopologyCalls, keys |-> {<<"k">>},
             maxages |-> {Omitted}, values |-> {HttpValue},
             instances |-> TopologyInstances, foreign |-> TRUE])

SpecTopology == InitTopology /\ [][Next]_vars

(***************************************************************************)
(* Vocabulary of the properties.                                           *)
(***************************************************************************)
GetCalls == {i \in DOMAIN calls : calls[i].op = "get"}
SetCalls == {i \in DOMAIN calls : calls[i].op = "set"}

ReadTerminalTypes ==
    {"REDIS_CACHE_READ_TIMEOUT", "REDIS_CACHE_READ_ERROR",
     "REDIS_CACHE_READ_KEY_NOT_FOUND", "REDIS_CACHE_JSON_PARSING_FAILED",
     "REDIS_CACHE_READ_DONE"}

WriteTerminalTypes ==
    {"REDIS_CACHE_JSON_STRINGIFY_FAILED", "REDIS_CACHE_WRITE_ERROR",
     "REDIS_CACHE_WRITE_FAILED", "REDIS_CACHE_WRITE_DONE"}

\* How many events of call c carry a type in `types`.
CountEvents(c, types) ==
    Cardinality({j \in DOMAIN c.events : c.events[j].type \in types})

EventTypes(c) == [j \in DOMAIN c.events |-> c.events[j].type]

SettleCalls(c) == c.resolveCalls + c.rejectCalls

RejectedWith(c, id) == c.promise = "rejected" /\ c.result = [t |-> "deError", id |-> id]

\* The store's callback of call c has run, before the timer fired.
AnsweredInTime(c) == c.response # Omitted /\ ~c.response.late

\* The store's callback of call c has run, after the timer fired.
AnsweredLate(c) == c.response # Omitted /\ c.response.late

NoError(c) == c.response.error = Nil

\* Payloads that are JSON text, each with the value it encodes, and
\* payloads that are present and are not JSON text.
ValidPayloads ==
    {Text(<<"null">>),
     Text(<<"\"", "somevalue", "\"">>),
     Text(<<"{", "\"", "status_code", "\"", ":", "200", "}">>)}

DecodedValue(data) ==
    CASE data = Text(<<"null">>) -> Null
      [] data = Text(<<"\"", "somevalue", "\"">>) -> Str("somevalue")
      [] OTHER -> Obj(<< <<"status_code", Num(200)>> >>)

MalformedPayloads == {Text(<<>>), Text(<<"{">>)}

(***************************************************************************)
(* C1.  Every get call emits at most one terminal event and calls          *)
(* resolve/reject at most once, the two always together; once the timer    *)
(* callback or the store callback has run, exactly one terminal event has  *)
(* been emitted and the promise has been settled exactly once, as resolved *)
(* or as rejected and never both.                                          *)
(***************************************************************************)
C1_OneTerminalOneSettlement ==
    \A i \in GetCalls :
        LET c == calls[i]
            n == CountEvents(c, ReadTerminalTypes)
        IN  /\ n <= 1
            /\ SettleCalls(c) = n
            /\ (c.promise = "pending") = (n = 0)
            /\ (c.timer \in {"fired", "cleared"} \/ c.request = "answered") =>
                    n = 1 /\ c.promise \in {"resolved", "rejected"}

\* Both orders of the race have been run to the end: one get answered in
\* time, another answered after its timer fired.
C1_Witness ==
    \E i \in GetCalls, j \in GetCalls :
        /\ AnsweredInTime(calls[i]) /\ calls[i].promise = "resolved"
        /\ AnsweredLate(calls[j]) /\ calls[j].promise = "rejected"

(***************************************************************************)
(* C2.  Under FairSpec every get call eventually settles, and a call whose *)
(* timer has fired has emitted READ_TIMEOUT and is rejected with the       *)
(* READ_TIMEOUT kind.                                                      *)
(***************************************************************************)
C2_GetEventuallySettles ==
    /\ \A i \in 1..FairCalls :
            (i \in GetCalls) ~> (i \in GetCalls /\ calls[i].promise # "pending")
    /\ [](\A i \in GetCalls :
            calls[i].timer = "fired" =>
                /\ EventTypes(calls[i]) =
                        <<"REDIS_CACHE_READ_START", "REDIS_CACHE_READ_TIMEOUT">>
                /\ RejectedWith(calls[i], "REDIS_CACHE_READ_TIMEOUT"))

\* The store has not answered and the timer has settled the call.
C2_Witness ==
    \E i \in GetCalls :
        /\ calls[i].request = "inflight"
        /\ calls[i].timer = "fired"
        /\ RejectedWith(calls[i], "REDIS_CACHE_READ_TIMEOUT")

(***************************************************************************)
(* C3.  A store response that arrives after the timer of its get call has  *)
(* fired changes nothing: whatever it carries, the call's events stay      *)
(* READ_START, READ_TIMEOUT, reject has been called once, resolve never,   *)
(* and the promise stays rejected with the READ_TIMEOUT kind.              *)
(***************************************************************************)
C3_LateResponseDiscarded ==
    \A i \in GetCalls :
        AnsweredLate(calls[i]) =>
            /\ EventTypes(calls[i]) =
                    <<"REDIS_CACHE_READ_START", "REDIS_CACHE_READ_TIMEOUT">>
            /\ calls[i].rejectCalls = 1
            /\ calls[i].resolveCalls = 0
            /\ RejectedWith(calls[i], "REDIS_CACHE_READ_TIMEOUT")

\* A late response that carries a valid payload and no error.
C3_Witness ==
    \E i \in GetCalls :
        /\ AnsweredLate(calls[i])
        /\ NoError(calls[i])
        /\ calls[i].response.data \in ValidPayloads

(***************************************************************************)
(* C4.  A get answered in time, without error and with no value, emits     *)
(* READ_KEY_NOT_FOUND and is rejected with the KEY_NOT_FOUND kind; it is   *)
(* never resolved.                                                         *)
(***************************************************************************)
C4_MissIsRejected ==
    \A i \in GetCalls :
        (AnsweredInTime(calls[i]) /\ NoError(calls[i]) /\ calls[i].response.data = Nil) =>
            /\ EventTypes(calls[i]) =
                    <<"REDIS_CACHE_READ_START", "REDIS_CACHE_READ_KEY_NOT_FOUND">>
            /\ RejectedWith(calls[i], "REDIS_CACHE_READ_KEY_NOT_FOUND")
            /\ calls[i].resolveCalls = 0

C4_Witness ==
    \E i \in GetCalls :
        /\ AnsweredInTime(calls[i]) /\ NoError(calls[i])
        /\ calls[i].response.data = Nil
        /\ calls[i].promise = "rejected"

(***************************************************************************)
(* C5.  A get answered in time, without error, with a present payload that *)
(* is not JSON text (the empty payload included), emits                    *)
(* JSON_PARSING_FAILED and is rejected with the JSON_PARSING_FAILED kind.  *)
(* The engine does not do this for the empty payload: `!data` sends it to  *)
(* the READ_KEY_NOT_FOUND branch.                                          *)
(***************************************************************************)
C5_MalformedIsParsingFailed ==
    \A i \in GetCalls :
        (AnsweredInTime(calls[i]) /\ NoError(calls[i])
            /\ calls[i].response.data \in MalformedPayloads) =>
            /\ EventTypes(calls[i]) =
                    <<"REDIS_CACHE_READ_START", "REDIS_CACHE_JSON_PARSING_FAILED">>
            /\ RejectedWith(calls[i], "REDIS_CACHE_JSON_PARSING_FAILED")

(***************************************************************************)
(* C6.  A get answered in time with a store error emits READ_ERROR and is  *)
(* rejected with the READ_ERROR kind, whatever data comes with the error.  *)
(***************************************************************************)
C6_StoreErrorFirst ==
    \A i \in GetCalls :
        (AnsweredInTime(calls[i]) /\ calls[i].response.error = StoreError) =>
            /\ EventTypes(calls[i]) =
                    <<"REDIS_CACHE_READ_START", "REDIS_CACHE_READ_ERROR">>
            /\ RejectedWith(calls[i], "REDIS_CACHE_READ_ERROR")

\* An error that comes together with a valid payload.
C6_Witness ==
    \E i \in GetCalls :
        /\ AnsweredInTime(calls[i])
        /\ calls[i].response.error = StoreError
        /\ calls[i].response.data \in ValidPayloads
        /\ calls[i].promise = "rejected"

(***************************************************************************)
(* C7.  A get answered in time, without error, with a payload that is JSON *)
(* text, emits READ_DONE and resolves with the value the payload encodes.  *)
(***************************************************************************)
C7_ValidPayloadResolvesDecoded ==
    \A i \in GetCalls :
        (AnsweredInTime(calls[i]) /\ NoError(calls[i])
            /\ calls[i].response.data \in ValidPayloads) =>
            /\ EventTypes(calls[i]) =
                    <<"REDIS_CACHE_READ_START", "REDIS_CACHE_READ_DONE">>
            /\ calls[i].promise = "resolved"
            /\ calls[i].result = DecodedValue(calls[i].response.data)
            /\ calls[i].rejectCalls = 0

\* A get resolved with an object decoded from its text.
C7_Witness ==
    \E i \in GetCalls :
        /\ AnsweredInTime(calls[i]) /\ NoError(calls[i])
        /\ calls[i].response.data \in ValidPayloads
        /\ calls[i].promise = "resolved"
        /\ calls[i].result.t = "object"

(***************************************************************************)
(* C8.  set with the absent value (undefined) returns a resolved promise,  *)
(* issues no store call and emits no event.  The js variant returns        *)
(* nothing at all (`return;`), so its caller holds no promise.             *)
(***************************************************************************)
C8_AbsentValueResolves ==
    \A i \in SetCalls :
        calls[i].value = Undefined =>
            /\ calls[i].promise = "resolved"
            /\ calls[i].storeCalls = <<>>
            /\ calls[i].events = <<>>

(***************************************************************************)
(* C9.  Whenever encoding the value passed to set yields no JSON text, set *)
(* emits JSON_STRINGIFY_FAILED, is rejected with the JSON_STRINGIFY_FAILED *)
(* kind and issues no store write.  The ts variant does not do this for a  *)
(* function: JSON.stringify returns undefined without throwing and the     *)
(* write is issued with that payload.                                      *)
(***************************************************************************)
\* Values whose encoding is no JSON text: ts encodes the value itself, js
\* the object of its three fields (which has a text for a function).
NoJsonTextValues ==
    IF variant = "ts" THEN {Func, CircularValue} ELSE {CircularValue}

C9_EncodingFailureIsStringifyFailed ==
    \A i \in SetCalls :
        calls[i].value \in NoJsonTextValues =>
            /\ CountEvents(calls[i], {"REDIS_CACHE_JSON_STRINGIFY_FAILED"}) = 1
            /\ RejectedWith(calls[i], "REDIS_CACHE_JSON_STRINGIFY_FAILED")
            /\ calls[i].storeCalls = <<>>

(***************************************************************************)
(* C10.  Every set call with a value other than undefined, once its write, *)
(* if issued, is answered, has emitted its start event and then exactly    *)
(* one terminal event, and has settled exactly once with the matching      *)
(* outcome: WRITE_ERROR on a store error, WRITE_FAILED on a falsy          *)
(* acknowledgment, WRITE_DONE and resolution otherwise.  The js variant    *)
(* does not do this for null: reading value.status_code throws in the      *)
(* executor, the promise is rejected with the TypeError and no terminal    *)
(* event is emitted.                                                       *)
(***************************************************************************)
ExpectedWriteType(response) ==
    CASE response.error = StoreError -> "REDIS_CACHE_WRITE_ERROR"
      [] response.error = Nil /\ response.data = Nil -> "REDIS_CACHE_WRITE_FAILED"
      [] OTHER -> "REDIS_CACHE_WRITE_DONE"

C10_SetLifecycle ==
    \A i \in SetCalls :
        LET c == calls[i] IN
        (c.value # Undefined /\ c.request # "inflight") =>
            /\ Len(c.events) = 2
            /\ c.events[1].type \notin WriteTerminalTypes
            /\ c.events[2].type \in WriteTerminalTypes
            /\ SettleCalls(c) = 1
            /\ IF c.events[2].type = "REDIS_CACHE_WRITE_DONE"
               THEN c.promise = "resolved"
               ELSE RejectedWith(c, c.events[2].type)
            /\ c.request = "answered" => c.events[2].type = ExpectedWriteType(c.response)

(***************************************************************************)
(* C11.  Every store command a set call issues is a SET with an expiry in  *)
(* seconds: the maxage passed to the call when it is a number, the         *)
(* defaultKeyTTL of the instance otherwise, which is 86400 for an instance *)
(* constructed without that option.  No write goes out without an expiry.  *)
(***************************************************************************)
C11_WriteCarriesExpiry ==
    /\ MergeOptions(NoOptions).defaultKeyTTL = 86400
    /\ \A i \in SetCalls :
        \A j \in DOMAIN calls[i].storeCalls :
            LET c == calls[i]
                w == c.storeCalls[j]
            IN  /\ w.cmd = "set"
                /\ w.ex \in Nat \ {0}
                /\ w.ex = IF c.maxage \in {Omitted, Undefined}
                          THEN c.this.defaultKeyTTL
                          ELSE c.maxage.n
                /\ c.this.defaultKeyTTL \in {86400, 3600}

\* A write without a maxage on the instance configured with 3600 seconds.
C11_Witness ==
    \E i \in SetCalls :
        /\ calls[i].maxage = Undefined
        /\ calls[i].this.defaultKeyTTL = 3600
        /\ calls[i].storeCalls # <<>>
        /\ calls[i].storeCalls[1].ex = 3600

(***************************************************************************)
(* C12.  Every store command of a get or set call for logical key k on an  *)
(* instance of generation g addresses the digest of the string 'g<g>:<k>': *)
(* get(k) and set(k) of one instance address the same storage key, however *)
(* many calls were made before.                                            *)
(***************************************************************************)
ExpectedKeyString(generation, key) ==
    CASE generation = 1 /\ key = <<"k">> -> <<"g", "1", ":", "k">>
      [] generation = 1 /\ key = <<"2", "k">> -> <<"g", "1", ":", "2", "k">>
      [] generation = 12 /\ key = <<"k">> -> <<"g", "1", "2", ":", "k">>
      [] generation = 12 /\ key = <<"2", "k">> -> <<"g", "1", "2", ":", "2", "k">>
      [] OTHER -> <<>>

C12_StableStorageKey ==
    \A i \in DOMAIN calls :
        \A j \in DOMAIN calls[i].storeCalls :
            calls[i].storeCalls[j].key =
                [sha512 |-> ExpectedKeyString(calls[i].this.generation, calls[i].key)]

\* A set and then a get for the same key on the instance of generation 12,
\* both sent to the store.
C12_Witness ==
    \E i \in SetCalls, j \in GetCalls :
        /\ i < j
        /\ calls[i].this.generation = 12
        /\ calls[i].this = calls[j].this
        /\ calls[i].key = calls[j].key
        /\ calls[i].storeCalls # <<>>
        /\ calls[j].storeCalls # <<>>

(***************************************************************************)
(* C13.  The hashed string is an injective function of (generation, key):  *)
(* two calls address the same storage key only if they agree on both the   *)
(* generation of their instance and their logical key.                     *)
(***************************************************************************)
C13_KeyStringInjective ==
    \A i \in DOMAIN calls, j \in DOMAIN calls :
        (calls[i].storeCalls # <<>> /\ calls[j].storeCalls # <<>>
            /\ calls[i].storeCalls[1].key = calls[j].storeCalls[1].key) =>
                /\ calls[i].this.generation = calls[j].this.generation
                /\ calls[i].key = calls[j].key

\* Generation 1 with key '2k' next to generation 12 with key 'k': the digits
\* of the two strings agree, the separator tells them apart.
C13_Witness ==
    \E i \in DOMAIN calls, j \in DOMAIN calls :
        /\ calls[i].this.generation = 1 /\ calls[i].key = <<"2", "k">>
        /\ calls[j].this.generation = 12 /\ calls[j].key = <<"k">>
        /\ calls[i].storeCalls # <<>> /\ calls[j].storeCalls # <<>>
        /\ calls[i].storeCalls[1].key # calls[j].storeCalls[1].key

(***************************************************************************)
(* C14.  Generation invalidation on one keyspace.  A get resolves only     *)
(* with a payload that an acknowledged set of the same generation wrote    *)
(* for the same logical key; a get answered in time without error is       *)
(* rejected as key-not-found when no set of its generation was sent for    *)
(* its key; and no command of an instance of one generation, a get or a    *)
(* set being the only commands, addresses a storage key used by another    *)
(* generation.                                                             *)
(***************************************************************************)
Acknowledged(c) ==
    c.response # Omitted /\ c.response.error = Nil /\ c.response.data = Str("OK")

SameGenerationAndKey(c, d) ==
    c.this.generation = d.this.generation /\ c.key = d.key

C14_GenerationInvalidation ==
    /\ \A i \in GetCalls :
        LET c == calls[i] IN
        /\ c.promise = "resolved" =>
                \E j \in SetCalls :
                    /\ SameGenerationAndKey(c, calls[j])
                    /\ Acknowledged(calls[j])
                    /\ calls[j].storeCalls[1].payload = c.response.data
        /\ (AnsweredInTime(c) /\ NoError(c)
                /\ \A j \in SetCalls : ~SameGenerationAndKey(c, calls[j])) =>
                    RejectedWith(c, "REDIS_CACHE_READ_KEY_NOT_FOUND")
    /\ \A i \in DOMAIN calls, j \in DOMAIN calls :
        \A a \in DOMAIN calls[i].storeCalls, b \in DOMAIN calls[j].storeCalls :
            /\ calls[i].storeCalls[a].cmd \in {"get", "set"}
            /\ calls[i].this.generation # calls[j].this.generation =>
                    calls[i].storeCalls[a].key # calls[j].storeCalls[b].key

\* A set under generation 1 was acknowledged and its entry is in the store;
\* a later get for the same key under generation 12 was answered as a miss.
C14_Witness ==
    \E i \in SetCalls, j \in GetCalls :
        /\ i < j
        /\ calls[i].this.generation = 1 /\ calls[j].this.generation = 12
        /\ calls[i].key = calls[j].key
        /\ Acknowledged(calls[i])
        /\ calls[i].storeCalls[1].key \in DOMAIN store
        /\ AnsweredInTime(calls[j]) /\ NoError(calls[j])
        /\ RejectedWith(calls[j], "REDIS_CACHE_READ_KEY_NOT_FOUND")

(***************************************************************************)
(* C15.  Round trip.  When a set of a supported value ended in WRITE_DONE  *)
(* and a get for the same key on the same instance is answered in time,    *)
(* without error, with the payload that set wrote, the get resolves with   *)
(* the projection of the value: the value itself in the ts variant, its    *)
(* { status_code, headers, result } part in the js variant.  Supported     *)
(* values are JSON values for ts and HTTP result objects for js.           *)
(***************************************************************************)
SupportedValues ==
    IF variant = "ts" THEN {Null, Str("somevalue"), HttpValue} ELSE {HttpValue}

NarrowedHttpValue ==
    Obj(<< <<"status_code", Num(200)>>,
           <<"headers", Obj(<<>>)>>,
           <<"result", Str("body")>> >>)

Project(v) == IF variant = "ts" THEN v ELSE NarrowedHttpValue

C15_RoundTrip ==
    \A i \in SetCalls, j \in GetCalls :
        (/\ calls[i].value \in SupportedValues
         /\ CountEvents(calls[i], {"REDIS_CACHE_WRITE_DONE"}) = 1
         /\ SameGenerationAndKey(calls[i], calls[j])
         /\ AnsweredInTime(calls[j]) /\ NoError(calls[j])
         /\ calls[j].response.data = calls[i].storeCalls[1].payload) =>
            /\ calls[j].promise = "resolved"
            /\ calls[j].result = Project(calls[i].value)

\* The HTTP result was written and read back through the store.
C15_Witness ==
    \E i \in SetCalls, j \in GetCalls :
        /\ i < j
        /\ calls[i].value = HttpValue
        /\ CountEvents(calls[i], {"REDIS_CACHE_WRITE_DONE"}) = 1
        /\ store = (calls[i].storeCalls[1].key :> calls[i].storeCalls[1].payload)
        /\ AnsweredInTime(calls[j]) /\ NoError(calls[j])
        /\ calls[j].response.data = calls[i].storeCalls[1].payload
        /\ calls[j].promise = "resolved"
        /\ calls[j].result = Project(HttpValue)

(***************************************************************************)
(* C16.  In the js variant every payload a set call sends to the store is  *)
(* the text of an object whose members are named status_code, headers or   *)
(* result and nothing else: no other field of the value is written.        *)
(***************************************************************************)
NarrowedFields == {"status_code", "headers", "result"}

\* The member names of a JSON object text: the token inside the quotes
\* that precede each colon.
MemberNames(toks) == {toks[n - 2] : n \in {m \in DOMAIN toks : toks[m] = ":"}}

C16_NarrowedPayload ==
    variant = "js" =>
        \A i \in SetCalls :
            \A j \in DOMAIN calls[i].storeCalls :
                LET json == calls[i].storeCalls[j].payload IN
                /\ json.t = "text"
                /\ json.toks # <<>>
                /\ json.toks[1] = "{"
                /\ MemberNames(json.toks) \subseteq NarrowedFields
                /\ \A n \in DOMAIN json.toks : json.toks[n] # "extraneousField"

\* The HTTP result with its extra field was sent by the js variant.
C16_Witness ==
    /\ variant = "js"
    /\ \E i \in SetCalls :
        /\ calls[i].value = HttpValue
        /\ calls[i].storeCalls # <<>>
        /\ MemberNames(calls[i].storeCalls[1].payload.toks) = NarrowedFields

(***************************************************************************)
(* C17.  In the ts variant every payload a set call sends to the store is  *)
(* the JSON text of the whole value: 'null' for null, '"somevalue"' for    *)
(* the string, the object with all four members for the HTTP result.  For  *)
(* a function the ts variant sends undefined, which is no JSON text.       *)
(***************************************************************************)
HttpValueJson ==
    Text(<<"{", "\"", "status_code", "\"", ":", "200", ",",
                "\"", "headers", "\"", ":", "{", "}", ",",
                "\"", "result", "\"", ":", "\"", "body", "\"", ",",
                "\"", "extraneousField", "\"", ":", "\"", "x", "\"", "}">>)

C17_VerbatimPayload ==
    variant = "ts" =>
        \A i \in SetCalls :
            \A j \in DOMAIN calls[i].storeCalls :
                LET json == calls[i].storeCalls[j].payload
                    value == calls[i].value
                IN  /\ json.t = "text"
                    /\ value = Null => json = Text(<<"null">>)
                    /\ value = Str("somevalue") =>
                            json = Text(<<"\"", "somevalue", "\"">>)
                    /\ value = HttpValue => json = HttpValueJson

(***************************************************************************)
(* C18.  A logger whose log throws does not change the outcome of a call:  *)
(* no promise is rejected with the logger's error, every get sends its one *)
(* read, and a call whose timer or store callback has run is settled.  The *)
(* code calls the logger unguarded, so a throw on the start event rejects  *)
(* the call with the logger's error before any store command, and a throw  *)
(* inside the timer or store callback leaves the promise pending.          *)
(***************************************************************************)
C18_LoggerFailureHarmless ==
    \A i \in DOMAIN calls :
        LET c == calls[i] IN
        /\ c.result # [t |-> "LoggerError"]
        /\ c.op = "get" => Len(c.storeCalls) = 1
        /\ (c.timer = "fired" \/ c.request = "answered") =>
                c.promise \in {"resolved", "rejected"}

(***************************************************************************)
(* C19.  The identifiers of the seven failure kinds are pairwise distinct  *)
(* and every rejected promise of get or set carries an error with one of   *)
(* them.  The js variant rejects set of null with the bare TypeError that  *)
(* reading value.status_code throws, which has no identifier.              *)
(***************************************************************************)
FailureKinds ==
    {"REDIS_CACHE_READ_TIMEOUT", "REDIS_CACHE_READ_ERROR",
     "REDIS_CACHE_READ_KEY_NOT_FOUND", "REDIS_CACHE_JSON_PARSING_FAILED",
     "REDIS_CACHE_JSON_STRINGIFY_FAILED", "REDIS_CACHE_WRITE_ERROR",
     "REDIS_CACHE_WRITE_FAILED"}

C19_IdentifiedRejections ==
    /\ Cardinality({EVENT.REDIS_CACHE_READ_TIMEOUT, EVENT.REDIS_CACHE_READ_ERROR,
                    EVENT.REDIS_CACHE_READ_KEY_NOT_FOUND,
                    EVENT.REDIS_CACHE_JSON_PARSING_FAILED,
                    EVENT.REDIS_CACHE_JSON_STRINGIFY_FAILED,
                    EVENT.REDIS_CACHE_WRITE_ERROR,
                    EVENT.REDIS_CACHE_WRITE_FAILED}) = 7
    /\ \A i \in DOMAIN calls :
        calls[i].promise = "rejected" =>
            /\ calls[i].result.t = "deError"
            /\ calls[i].result.id \in FailureKinds

(***************************************************************************)
(* C20.  No retries.  A get call has sent exactly one GET and no SET, a    *)
(* set call at most one SET and no GET, at every moment of the call: a     *)
(* timeout, a store error, a miss, a parse or stringify failure or an      *)
(* unacknowledged write is followed by no further store command.           *)
(***************************************************************************)
Commands(c) == [j \in DOMAIN c.storeCalls |-> c.storeCalls[j].cmd]

C20_NoRetries ==
    /\ \A i \in GetCalls : Commands(calls[i]) = <<"get">>
    /\ \A i \in SetCalls : Commands(calls[i]) \in {<<>>, <<"set">>}

\* A get that failed on a store error and a set whose write was not
\* acknowledged, each with its single command.
C20_Witness ==
    \E i \in GetCalls, j \in SetCalls :
        /\ RejectedWith(calls[i], "REDIS_CACHE_READ_ERROR")
        /\ RejectedWith(calls[j], "REDIS_CACHE_WRITE_FAILED")
        /\ Len(calls[i].storeCalls) = 1
        /\ Len(calls[j].storeCalls) = 1

(***************************************************************************)
(* C21.  A get sends its read through the reader handle and a set its      *)
(* write through the writer handle.  With a single node or a cluster the   *)
(* two are the one client; with sentinel and split mode (ts) they are two  *)
(* clients, reads go to the reader and no write goes to the reader.        *)
(***************************************************************************)
SplitInstance(o) ==
    variant = "ts" /\ ~o.cluster /\ o.useReaderAndWriterWithSentinel

C21_ReaderWriterRouting ==
    \A i \in DOMAIN calls :
        \A j \in DOMAIN calls[i].storeCalls :
            LET w == calls[i].storeCalls[j] IN
            /\ w.cmd = (IF calls[i].op = "get" THEN "get" ELSE "set")
            /\ IF SplitInstance(calls[i].this)
               THEN w.handle = (IF w.cmd = "get" THEN "reader" ELSE "writer")
               ELSE w.handle = "client"

\* A write was sent on an instance in split mode.
C21_Witness ==
    \E i \in SetCalls :
        /\ SplitInstance(calls[i].this)
        /\ calls[i].storeCalls # <<>>
        /\ calls[i].storeCalls[1].handle = "writer"

(***************************************************************************)
(* C22.  A get whose store response was processed before the timer fired   *)
(* has its timer disarmed, whichever branch the response took, and never   *)
(* emits READ_TIMEOUT; READ_TIMEOUT never follows another terminal event;  *)
(* and no settled get has an armed timer.                                  *)
(***************************************************************************)
C22_TimerDisarmed ==
    \A i \in GetCalls :
        LET c == calls[i] IN
        /\ AnsweredInTime(c) =>
                /\ c.timer = "cleared"
                /\ CountEvents(c, {"REDIS_CACHE_READ_TIMEOUT"}) = 0
        /\ c.promise # "pending" => c.timer # "armed"
        /\ \A a \in DOMAIN c.events, b \in DOMAIN c.events :
                (a < b /\ c.events[a].type \in
                            ReadTerminalTypes \ {"REDIS_CACHE_READ_TIMEOUT"}) =>
                    c.events[b].type # "REDIS_CACHE_READ_TIMEOUT"

\* The response that won the race was a payload that does not parse.
C22_Witness ==
    \E i \in GetCalls :
        /\ AnsweredInTime(calls[i])
        /\ RejectedWith(calls[i], "REDIS_CACHE_JSON_PARSING_FAILED")
        /\ calls[i].timer = "cleared"

(***************************************************************************)
(* C23.  Calls are independent: a step of the program, be it a timer       *)
(* firing, a store response or a new call, changes the timer, the flag,    *)
(* the events and the outcome of at most one call, and leaves every other  *)
(* call in flight, for the same key or another, as it was.                 *)
(***************************************************************************)
C23_CallsIndependent ==
    [][\A i \in DOMAIN calls, k \in DOMAIN calls :
            (i # k /\ calls'[i] # calls[i]) => calls'[k] = calls[k]]_vars

\* The timer of the second get has fired while the first get, for another
\* key, is still in flight with its timer armed and nothing but its start
\* event emitted.
C23_Witness ==
    /\ Len(calls) = 2
    /\ calls[1].op = "get" /\ calls[2].op = "get"
    /\ calls[1].key # calls[2].key
    /\ RejectedWith(calls[2], "REDIS_CACHE_READ_TIMEOUT")
    /\ calls[1].timer = "armed" /\ ~calls[1].isTimeout
    /\ calls[1].request = "inflight" /\ calls[1].promise = "pending"
    /\ Len(calls[1].events) = 1

(***************************************************************************)
(* C24.  Every set call with a value other than undefined emits exactly    *)
(* one start event, first of its events, with the type tag                 *)
(* REDIS_CACHE_WRITE_START, and the twelve lifecycle type tags are         *)
(* pairwise distinct.  The js table gives REDIS_CACHE_WRITE_START the      *)
(* value 'REDIS_CACHE_READ_START', so a set of the js variant starts with  *)
(* the tag of a get.                                                       *)
(***************************************************************************)
C24_WriteStartTag ==
    \A i \in SetCalls :
        LET c == calls[i] IN
        c.value # Undefined =>
            /\ c.events # <<>>
            /\ c.events[1].type = "REDIS_CACHE_WRITE_START"
            /\ CountEvents(c, {"REDIS_CACHE_WRITE_START"}) = 1
            /\ CountEvents(c, {"REDIS_CACHE_READ_START"}) = 0
            /\ Cardinality({EVENT[name] : name \in DOMAIN EVENT}) = 12

(***************************************************************************)
(* C25.  The events of a get call are READ_START and then, once its timer  *)
(* callback or its store callback has run, exactly one terminal event:     *)
(* READ_START is there as soon as the read is sent and the timer armed,    *)
(* and nothing follows the terminal event.                                 *)
(***************************************************************************)
C25_GetTwoEvents ==
    \A i \in GetCalls :
        LET c == calls[i]
            types == EventTypes(c)
        IN  /\ Len(types) \in {1, 2}
            /\ types[1] = "REDIS_CACHE_READ_START"
            /\ Len(types) = 2 => types[2] \in ReadTerminalTypes
            /\ Len(types) = 2 <=> (c.timer = "fired" \/ c.request = "answered")

\* The timer fired and the response came afterwards: still two events.
C25_Witness ==
    \E i \in GetCalls :
        /\ AnsweredLate(calls[i])
        /\ EventTypes(calls[i]) =
                <<"REDIS_CACHE_READ_START", "REDIS_CACHE_READ_TIMEOUT">>

(***************************************************************************)
(* C26.  The READ_DONE event of a get that resolved carries the decoded    *)
(* value, the one the promise resolved with.  Both variants log the `data` *)
(* argument of the store callback instead, the payload as stored.          *)
(***************************************************************************)
C26_ReadDoneCarriesDecoded ==
    \A i \in GetCalls :
        LET c == calls[i] IN
        c.promise = "resolved" =>
            \A j \in DOMAIN c.events :
                c.events[j].type = "REDIS_CACHE_READ_DONE" =>
                    c.events[j].data = c.result

(***************************************************************************)
(* C27.  set has no timeout.  No set call ever has a timer or a timed-out  *)
(* flag, and for as long as its write is not answered a set has emitted    *)
(* its start event and nothing else, has called neither resolve nor        *)
(* reject, and its promise is pending.                                     *)
(***************************************************************************)
C27_SetHasNoTimeout ==
    \A i \in SetCalls :
        LET c == calls[i] IN
        /\ c.timer = "none"
        /\ ~c.isTimeout
        /\ CountEvents(c, {"REDIS_CACHE_READ_TIMEOUT"}) = 0
        /\ c.request = "inflight" =>
                /\ c.promise = "pending"
                /\ SettleCalls(c) = 0
                /\ Len(c.events) = 1
                /\ c.events[1].type \notin WriteTerminalTypes

\* A write is out and not answered, next to a get that has already timed
\* out: the set is still pending.
C27_Witness ==
    \E i \in SetCalls, j \in GetCalls :
        /\ i < j
        /\ calls[i].request = "inflight"
        /\ calls[i].promise = "pending"
        /\ RejectedWith(calls[j], "REDIS_CACHE_READ_TIMEOUT")

(***************************************************************************)
(* C28.  A get, or a set of a value other than undefined, that rejected    *)
(* has emitted exactly one terminal event and was rejected with the        *)
(* failure kind named by that event's type; one that resolved has emitted  *)
(* exactly one terminal event, READ_DONE for a get and WRITE_DONE for a    *)
(* set.  The js variant rejects set of null from the throw of the          *)
(* projection, with no terminal event and no failure kind.                 *)
(***************************************************************************)
TerminalEvents(c) ==
    {j \in DOMAIN c.events :
        c.events[j].type \in ReadTerminalTypes \cup WriteTerminalTypes}

C28_FailureIdIsTerminalEvent ==
    \A i \in DOMAIN calls :
        LET c == calls[i] IN
        (c.value # Undefined /\ c.promise \in {"rejected", "resolved"}) =>
            /\ Cardinality(TerminalEvents(c)) = 1
            /\ \A j \in TerminalEvents(c) :
                    IF c.promise = "rejected"
                    THEN RejectedWith(c, c.events[j].type)
                    ELSE c.events[j].type =
                            (IF c.op = "get" THEN "REDIS_CACHE_READ_DONE"
                                             ELSE "REDIS_CACHE_WRITE_DONE")

(***************************************************************************)
(* C29.  The REDIS_CACHE_INITIALIZED event the constructor logs holds no   *)
(* connection descriptor: the logged options have no redis property, so    *)
(* instances that differ in it only log the same event.  The ts variant    *)
(* logs a copy of all its options, redis included.                         *)
(***************************************************************************)
C29_InitializedHidesConnection ==
    /\ initialized.type = "REDIS_CACHE_INITIALIZED"
    /\ "redis" \notin DOMAIN initialized.options

====
